---- MODULE Spec2Model ----
(***************************************************************************)
(* Model of src/renewal.py: one run of XServerGamesRenewal.run().          *)
(* The program state is the object's fields plus the position of the       *)
(* single sequential task; the remote page is the environment, whose       *)
(* answers (which context holds an element, whether a call raises) are     *)
(* chosen nondeterministically at the call that observes them.             *)
(***************************************************************************)
EXTENDS Integers, Sequences, FiniteSets, TLC

(* ---- bounds of the model ---- *)
MaxFrames == 2          \* embedded frames of the listing page: 0..MaxFrames
MaxLen == 4             \* tokens of the text read from the time region

(* ---- program constants ---- *)
Threshold == 24         \* run: remaining_hours >= 24
NumFinalSelectors == 6  \* extend_contract: final_selectors
NumConfirmSelectors == 4 \* extend_contract: confirm_selectors
NumFourthSelectors == 7 \* extend_contract: fourth_selectors

None == "None"
NoHours == -1           \* remaining_hours is None
Root == 0               \* context 0 is the page's main frame (page.frames[0])

\* the click methods of the three-method loops, in the order of the lists
ClickMethods == <<"click_force", "dispatch_event", "evaluate_click">>

VARIABLES
    pc,               \* position of the task
    pw,               \* self._pw:   "none" | "started" | "stopped"
    browser,          \* self.browser: "none" | "open" | "closed"
    page,             \* self.page is set
    renewal_status,   \* self.renewal_status
    remaining_hours,  \* self.remaining_hours (None or an integer)
    error_message,    \* self.error_message (None or a message tag)
    ret,              \* value returned by the stage that ran last ("True"/"False")
    notes,            \* Notifier.notify calls of the run: <<title, content>>
    stages,           \* stages started, in order
    lastShot,         \* label of the last self.shot request
    closeCalled,      \* browser.close() was called in finally
    stopCalled,       \* _pw.stop() was called in finally
    \* login: the page after the form was submitted, and the scan's locals
    otpVisible,       \* the step-up-verification marker is visible
    nframes,          \* len(page.frames) - 1
    present,          \* contexts where the entry locator has count() > 0
    visible,          \* contexts where its first element becomes visible
    clicked,          \* login's local `clicked`
    fi,               \* next frame of the loop over page.frames[1:]
    probes,           \* per context of the listing page: count() calls made
    entryClicks,      \* listing-page contexts where the entry click went
    dispatchRaised,   \* a visible entry element's dispatch_event raised
    landmark,         \* panel landmark at the wait: "unknown"|"visible"|"absent"
    \* get_remaining_time
    timeCtx,          \* context holding the remaining-time region
    full_text,        \* local full_text (sequence of tokens)
    timeProbes,       \* waits made on the remaining-time locator
    \* extend_contract
    ctlCtx,           \* where the renewal button is: "root" or "frame"
    stg,              \* current stage 1..4 of extend_contract (0 outside)
    selIdx,           \* next selector of the stage's list to probe
    chosen,           \* stage's locator: 0 none, k selector k, -1 fallback
    tried,            \* click methods attempted on the stage's locator
    clicks,           \* per stage: click events dispatched without raising
    selProbes,        \* per stage: is_visible probes made on the root page
    markerSeen        \* the success marker was observed

vars == <<pc, pw, browser, page, renewal_status, remaining_hours,
          error_message, ret, notes, stages, lastShot, closeCalled,
          stopCalled, otpVisible, nframes, present, visible, clicked, fi,
          probes, entryClicks, dispatchRaised, landmark, timeCtx, full_text,
          timeProbes, ctlCtx, stg, selIdx, chosen, tried, clicks,
          selProbes, markerSeen>>

runVars == <<renewal_status, remaining_hours>>
resVars == <<pw, browser, page, closeCalled, stopCalled>>
loginEnv == <<otpVisible, nframes, present, visible>>
loginVars == <<clicked, fi, probes, entryClicks, dispatchRaised, landmark>>
timeVars == <<timeCtx, full_text, timeProbes>>
extVars == <<ctlCtx, stg, selIdx, chosen, tried, clicks, selProbes,
             markerSeen>>

Contexts == 0..MaxFrames
Stages == 1..4

(* ---- Notifier.notify ---- *)
Notified(title, content) == notes' = Append(notes, <<title, content>>)

(* ---- self.shot(name): a capture is requested when the page is set ---- *)
Shot(name) == lastShot' = IF page THEN name ELSE lastShot

Init ==
    /\ pc = "start"
    /\ pw = "none" /\ browser = "none" /\ page = FALSE
    /\ renewal_status = "Unknown"
    /\ remaining_hours = NoHours
    /\ error_message = None
    /\ ret = None
    /\ notes = <<>>
    /\ stages = <<>>
    /\ lastShot = None
    /\ closeCalled = FALSE /\ stopCalled = FALSE
    /\ otpVisible = FALSE /\ nframes = 0 /\ present = {} /\ visible = {}
    /\ clicked = FALSE /\ fi = 1
    /\ probes = [c \in Contexts |-> 0]
    /\ entryClicks = <<>>
    /\ dispatchRaised = FALSE
    /\ landmark = "unknown"
    /\ timeCtx = None /\ full_text = <<>> /\ timeProbes = 0
    /\ ctlCtx = None /\ stg = 0 /\ selIdx = 1 /\ chosen = 0 /\ tried = <<>>
    /\ clicks = [s \in Stages |-> 0]
    /\ selProbes = [s \in Stages |-> 0]
    /\ markerSeen = FALSE

(* ======================= setup_browser ================================= *)
\* The call that raises decides what was acquired: start(), launch(),
\* new_context()/add_init_script()/new_page(), or a call after the page is
\* set (stealth_async, set_default_timeout).
SetupBrowser ==
    /\ pc = "start"
    /\ stages' = Append(stages, "setup_browser")
    /\ \E fp \in {"start", "launch", "context", "page", "ok"} :
         /\ pw' = IF fp = "start" THEN "none" ELSE "started"
         /\ browser' = IF fp \in {"start", "launch"} THEN "none" ELSE "open"
         /\ page' = (fp \in {"page", "ok"})
         /\ IF fp = "ok"
              THEN /\ ret' = "True"
                   /\ UNCHANGED error_message
              ELSE /\ ret' = "False"
                   /\ error_message' = "BrowserLaunchFailed"
    /\ pc' = "setup_ret"
    /\ UNCHANGED <<runVars, notes, lastShot, closeCalled, stopCalled,
                   loginEnv, loginVars, timeVars, extVars>>

\* faulty variant of StageSucceeded: the stage's result not looked at
StageSucceeded_Ignored(r) == TRUE

\* run: `if not await self.<stage>()`: a stage returns True or False
StageSucceeded(r) == r = "True"

\* run: if not await self.setup_browser(): notify; return
RunAfterSetup ==
    /\ pc = "setup_ret"
    /\ IF StageSucceeded(ret)
         THEN /\ pc' = "login_form"
              /\ stages' = Append(stages, "login")
              /\ UNCHANGED notes
         ELSE /\ Notified("StartFailed", error_message)
              /\ pc' = "fin_close"
              /\ UNCHANGED stages
    /\ UNCHANGED <<runVars, resVars, error_message, ret, lastShot,
                   loginEnv, loginVars, timeVars, extVars>>


(* ======================= login ========================================= *)
\* An exception anywhere in login's try block: except Exception (200-204).
LoginCrash ==
    /\ error_message' = "LoginUnknownError"
    /\ Shot("error_login_critical")
    /\ ret' = "False"
    /\ pc' = "login_ret"

\* goto, wait_for_selector, fill, fill, shot, submit with expect_navigation,
\* shot. The page that the navigation loads is the environment's choice.
LoginForm ==
    /\ pc = "login_form"
    /\ \/ /\ LoginCrash
          /\ UNCHANGED loginEnv
       \/ /\ Shot("02_after_login")
          /\ pc' = "login_otp"
          /\ otpVisible' \in BOOLEAN
          /\ nframes' \in 0..MaxFrames
          /\ present' \in SUBSET (0..nframes')
          /\ visible' \in SUBSET present'
          /\ UNCHANGED <<error_message, ret>>
    /\ UNCHANGED <<runVars, resVars, notes, stages, loginVars, timeVars,
                   extVars>>

\* faulty variant of StepUpDetected: the check left out
StepUpDetected_Never(marker) == FALSE

\* if await self.page.is_visible('text=...'): the step-up-verification page
StepUpDetected(marker) == marker

LoginOtpCheck ==
    /\ pc = "login_otp"
    /\ IF StepUpDetected(otpVisible)
         THEN /\ error_message' = "StepUpVerificationRequired"
              /\ Shot("03_otp_page")
              /\ ret' = "False"
              /\ pc' = "login_ret"
         ELSE /\ pc' = "login_main"
              /\ UNCHANGED <<error_message, lastShot, ret>>
    /\ UNCHANGED <<runVars, resVars, notes, stages, loginEnv, loginVars,
                   timeVars, extVars>>

\* One resolution of the entry locator in context c followed by
\* robust_click on its first element: count() > 0, wait_for(visible),
\* dispatch_event('click'); every exception of robust_click is swallowed.
EntryProbe(c) ==
    /\ probes' = [probes EXCEPT ![c] = @ + 1]
    /\ UNCHANGED landmark
    /\ IF c \in present /\ c \in visible
         THEN \E raises \in BOOLEAN :
                /\ clicked' = ~raises
                /\ entryClicks' = IF raises THEN entryClicks
                                  ELSE Append(entryClicks, c)
                /\ dispatchRaised' = (dispatchRaised \/ raises)
         ELSE UNCHANGED <<clicked, entryClicks, dispatchRaised>>

\* [stage 1/2] the main page
LoginMainProbe ==
    /\ pc = "login_main"
    /\ \/ /\ LoginCrash
          /\ UNCHANGED loginVars
       \/ /\ EntryProbe(Root)
          /\ pc' = "login_frames"
          /\ UNCHANGED <<fi, error_message, lastShot, ret>>
    /\ UNCHANGED <<runVars, resVars, notes, stages, loginEnv, timeVars,
                   extVars>>

\* faulty variant of ScannedFrames: the loop taken over page.frames, the
\* main frame included
ScannedFrames_All(n) == [i \in 1..(n + 1) |-> i - 1]

\* self.page.frames[1:]: the frames after the main frame, in order
ScannedFrames(n) == [i \in 1..n |-> i]

\* [stage 2/2] for i, frame in enumerate(self.page.frames[1:], 1)
LoginFrameProbe ==
    /\ pc = "login_frames"
    /\ ~clicked
    /\ fi <= Len(ScannedFrames(nframes))
    /\ \/ /\ LoginCrash
          /\ UNCHANGED loginVars
       \/ /\ EntryProbe(ScannedFrames(nframes)[fi])
          /\ fi' = fi + 1
          /\ UNCHANGED <<pc, error_message, lastShot, ret>>
    /\ UNCHANGED <<runVars, resVars, notes, stages, loginEnv, timeVars,
                   extVars>>

\* if not clicked: error_message, shot, return False
LoginScanDone ==
    /\ pc = "login_frames"
    /\ clicked \/ fi > Len(ScannedFrames(nframes))
    /\ IF clicked
         THEN /\ pc' = "login_verify"
              /\ UNCHANGED <<error_message, lastShot, ret>>
         ELSE /\ error_message' = "EntryClickFailed"
              /\ Shot("04_click_failure")
              /\ ret' = "False"
              /\ pc' = "login_ret"
    /\ UNCHANGED <<runVars, resVars, notes, stages, loginEnv, loginVars,
                   timeVars, extVars>>

\* faulty variant of PanelReached: the wait's timeout not taken as failure
PanelReached_Always(seen) == TRUE

\* wait_for(state="visible", timeout=30000) returned / raised the timeout
PanelReached(seen) == seen

\* wait for the management-page landmark on the page (30 s)
LoginVerify ==
    /\ pc = "login_verify"
    /\ \/ /\ LoginCrash
          /\ UNCHANGED landmark
       \/ \E seen \in BOOLEAN :
            /\ landmark' = IF seen THEN "visible" ELSE "absent"
            /\ IF PanelReached(seen)
                 THEN /\ Shot("05_panel_success")
                      /\ ret' = "True"
                      /\ pc' = "login_ret"
                      /\ UNCHANGED error_message
                 ELSE /\ error_message' = "PanelValidationFailed"
                      /\ Shot("06_panel_validation_failed")
                      /\ ret' = "False"
                      /\ pc' = "login_ret"
    /\ UNCHANGED <<runVars, resVars, notes, stages, loginEnv, clicked, fi,
                   probes, entryClicks, dispatchRaised, timeVars, extVars>>

\* run: if not await self.login(): notify; return
\* When login succeeded the page has navigated to the panel: the listing
\* page, its frames and what was observed on it are left behind.
RunAfterLogin ==
    /\ pc = "login_ret"
    /\ IF StageSucceeded(ret)
         THEN /\ pc' = "time_locate"
              /\ stages' = Append(stages, "get_remaining_time")
              /\ UNCHANGED notes
         ELSE /\ Notified("LoginFailed", error_message)
              /\ pc' = "fin_close"
              /\ UNCHANGED stages
    /\ IF StageSucceeded(ret)
         THEN /\ nframes' = 0 /\ present' = {} /\ visible' = {}
              /\ clicked' = FALSE /\ fi' = 1
              /\ probes' = [c \in Contexts |-> 0]
              /\ entryClicks' = <<>>
              /\ dispatchRaised' = FALSE
         ELSE UNCHANGED <<nframes, present, visible, loginVars>>
    /\ UNCHANGED <<runVars, resVars, error_message, ret, lastShot,
                   otpVisible, landmark, timeVars, extVars>>

(* ======================= get_remaining_time ============================ *)
\* Tokens of the region's text: M is the remaining-marker, U the hours
\* unit, "s" one whitespace character, "x" any other character.
Digits == {"0", "2", "3", "4"}
Tokens == {"M", "U", "s", "x"} \cup Digits
Whitespace == {"s"}

\* texts an element matched by *:has-text(M):has-text(U) can carry
LocatedTexts ==
    {t \in UNION {[1..k -> Tokens] : k \in 0..MaxLen} :
        /\ \E i \in DOMAIN t : t[i] = "M"
        /\ \E i \in DOMAIN t : t[i] = "U"}

\* position after the longest run of characters of class S starting at i
RECURSIVE SkipWhile(_, _, _)
SkipWhile(t, i, S) ==
    IF i <= Len(t) /\ t[i] \in S THEN SkipWhile(t, i + 1, S) ELSE i

\* faulty variant of MatchAt: the pattern without the optional whitespace
MatchAt_NoWhitespace(t, i) ==
    IF t[i] # "M" THEN <<>>
    ELSE LET k == SkipWhile(t, i + 1, Digits)
         IN  IF k > i + 1 /\ k <= Len(t) /\ t[k] = "U"
               THEN SubSeq(t, i + 1, k - 1)
               ELSE <<>>

\* the regular expression M \s* (\d+) \s* U anchored at position i:
\* the captured digits, or <<>> when it does not match there
MatchAt(t, i) ==
    IF t[i] # "M" THEN <<>>
    ELSE LET j == SkipWhile(t, i + 1, Whitespace)
             k == SkipWhile(t, j, Digits)
             l == SkipWhile(t, k, Whitespace)
         IN  IF k > j /\ l <= Len(t) /\ t[l] = "U"
               THEN SubSeq(t, j, k - 1)
               ELSE <<>>

\* re.search: the match at the leftmost position that has one
RECURSIVE SearchFrom(_, _)
SearchFrom(t, i) ==
    IF i > Len(t) THEN <<>>
    ELSE IF MatchAt(t, i) # <<>> THEN MatchAt(t, i)
    ELSE SearchFrom(t, i + 1)

ReSearch(t) == SearchFrom(t, 1)

DigitValue(d) ==
    CASE d = "0" -> 0 [] d = "2" -> 2 [] d = "3" -> 3 [] d = "4" -> 4

\* int(match.group(1)): base 10, most significant digit first
RECURSIVE IntOf(_)
IntOf(ds) ==
    IF ds = <<>> THEN 0
    ELSE 10 * IntOf(SubSeq(ds, 1, Len(ds) - 1)) + DigitValue(ds[Len(ds)])

\* An exception in get_remaining_time's try block: except Exception (230-234)
GetTimeCrash(detail) ==
    /\ error_message' = detail
    /\ Shot("error_get_time")
    /\ ret' = "False"
    /\ pc' = "time_ret"
    /\ UNCHANGED full_text

\* sleep, shot, locator(...).first on the page, wait_for(visible, 15 s),
\* inner_text(). The locator is the page's: only an element of the main
\* frame is ever found.
GetTimeLocate ==
    /\ pc = "time_locate"
    /\ timeProbes' = timeProbes + 1
    /\ \E where \in {"none", "root", "frame"} :
         /\ timeCtx' = where
         /\ IF where = "root"
              THEN \/ GetTimeCrash("GetTimeFailed:Error")
                   \/ /\ full_text' \in LocatedTexts
                      /\ Shot("07_before_get_time")
                      /\ pc' = "time_match"
                      /\ UNCHANGED <<error_message, ret>>
              ELSE GetTimeCrash("GetTimeFailed:Timeout")
    /\ UNCHANGED <<runVars, resVars, notes, stages, loginEnv, loginVars,
                   extVars>>

\* faulty variant of GetTimeMatch: the mismatch branch falls through to
\* return True
GetTimeMatch_MismatchPasses ==
    /\ pc = "time_match"
    /\ IF ReSearch(full_text) # <<>>
         THEN /\ remaining_hours' = IntOf(ReSearch(full_text))
              /\ UNCHANGED error_message
         ELSE /\ error_message' = "PatternMismatch"
              /\ UNCHANGED remaining_hours
    /\ ret' = "True"
    /\ pc' = "time_ret"
    /\ UNCHANGED <<renewal_status, resVars, notes, stages, lastShot,
                   loginEnv, loginVars, timeVars, extVars>>

\* match = re.search(...); if match: remaining_hours = int(...); return True
\* otherwise error_message and return False (no screenshot on this path)
GetTimeMatch ==
    /\ pc = "time_match"
    /\ IF ReSearch(full_text) # <<>>
         THEN /\ remaining_hours' = IntOf(ReSearch(full_text))
              /\ ret' = "True"
              /\ UNCHANGED error_message
         ELSE /\ error_message' = "PatternMismatch"
              /\ ret' = "False"
              /\ UNCHANGED remaining_hours
    /\ pc' = "time_ret"
    /\ UNCHANGED <<renewal_status, resVars, notes, stages, lastShot,
                   loginEnv, loginVars, timeVars, extVars>>

\* faulty variant of NoRenewalNeeded: the threshold taken as exclusive
NoRenewalNeeded_Exclusive(h) == h # NoHours /\ h > Threshold

\* run: if self.remaining_hours is not None and self.remaining_hours >= 24
NoRenewalNeeded(h) == h # NoHours /\ h >= Threshold

\* run: check of get_remaining_time's result and the renewal decision.
\* get_remaining_time's locals end with its frame.
RunAfterTime ==
    /\ pc = "time_ret"
    /\ full_text' = <<>>
    /\ timeCtx' = None
    /\ IF ~StageSucceeded(ret)
         THEN /\ Notified("CheckFailed", error_message)
              /\ pc' = "fin_close"
              /\ UNCHANGED <<renewal_status, stages, ctlCtx, stg>>
         ELSE IF NoRenewalNeeded(remaining_hours)
         THEN /\ renewal_status' = "Not Needed"
              /\ Notified("NotNeeded", "hours")
              /\ pc' = "fin_close"
              /\ UNCHANGED <<stages, ctlCtx, stg>>
         ELSE /\ stages' = Append(stages, "extend_contract")
              /\ pc' = "ext_entry"
              /\ stg' = 1
              /\ ctlCtx' \in {"root", "frame"}
              /\ UNCHANGED <<renewal_status, notes>>
    /\ UNCHANGED <<remaining_hours, resVars, error_message, ret, lastShot,
                   loginEnv, loginVars, timeProbes, selIdx, chosen, tried,
                   clicks, selProbes, markerSeen>>

(* ======================= extend_contract =============================== *)
\* Every locator of extend_contract is panel.locator(...) with
\* panel = self.page: it resolves in the main frame only.
\* is_visible() answers at once; an is_visible() that raises inside the
\* selector loops is caught by `except: continue`, which is the path of a
\* False answer, so a probe has the two outcomes visible / not visible.

\* number of selectors of the stage's list (stage 1 has the one locator)
NumSelectors(s) ==
    CASE s = 1 -> 1
      [] s = 2 -> NumFinalSelectors
      [] s = 3 -> NumConfirmSelectors
      [] s = 4 -> NumFourthSelectors

\* faulty variant of ExtFail: the handler returns False without recording
\* the message
ExtFail_NoMessage(detail) ==
    /\ UNCHANGED error_message
    /\ Shot("error_extend_final")
    /\ ret' = "False"
    /\ pc' = "ext_ret"

\* raise inside extend_contract's try block: except Exception (472-476)
ExtFail(detail) ==
    /\ error_message' = detail
    /\ Shot("error_extend_final")
    /\ ret' = "False"
    /\ pc' = "ext_ret"

\* the stage's locator was found: scroll_into_view_if_needed, wait_for
\* (either may raise), then the click loop starts with nothing tried
ExtPrepare(loc) ==
    \/ /\ ExtFail("Renew:Error")
       /\ UNCHANGED <<chosen, tried>>
    \/ /\ chosen' = loc
       /\ tried' = <<>>
       /\ pc' = "ext_click"
       /\ UNCHANGED <<error_message, lastShot, ret>>

\* stage 1: entry_loc.is_visible(), scroll, wait_for
ExtEntry ==
    /\ pc = "ext_entry"
    /\ selProbes' = [selProbes EXCEPT ![1] = @ + 1]
    /\ \E vis \in BOOLEAN :
         IF vis THEN ExtPrepare(1)
         ELSE /\ ExtFail("Renew:EntryNotFound")
              /\ UNCHANGED <<chosen, tried>>
    /\ UNCHANGED <<runVars, resVars, notes, stages, loginEnv, loginVars,
                   timeVars, ctlCtx, stg, selIdx, clicks, markerSeen>>

\* faulty variant of AfterClick: the status set to Success once the
\* confirmation click went out
AfterClick_EarlySuccess(s) ==
    CASE s = 1 -> /\ pc' = "ext_sel" /\ stg' = 2 /\ selIdx' = 1
                  /\ Shot("08_after_enter_final_page")
                  /\ UNCHANGED <<renewal_status, ret>>
      [] s = 2 -> /\ pc' = "ext_sel" /\ stg' = 3 /\ selIdx' = 1
                  /\ Shot("10_after_third_load")
                  /\ UNCHANGED <<renewal_status, ret>>
      [] s = 3 -> /\ pc' = "ext_marker"
                  /\ renewal_status' = "Success"
                  /\ UNCHANGED <<stg, selIdx, lastShot, ret>>
      [] s = 4 -> /\ renewal_status' = "Success"
                  /\ Shot("success_all_stages")
                  /\ ret' = "True"
                  /\ pc' = "ext_ret"
                  /\ UNCHANGED <<stg, selIdx>>

\* what follows the stage's click: the next stage's search, the wait for
\* the success marker, or the end of the procedure
AfterClick(s) ==
    CASE s = 1 -> /\ pc' = "ext_sel" /\ stg' = 2 /\ selIdx' = 1
                  /\ Shot("08_after_enter_final_page")
                  /\ UNCHANGED <<renewal_status, ret>>
      [] s = 2 -> /\ pc' = "ext_sel" /\ stg' = 3 /\ selIdx' = 1
                  /\ Shot("10_after_third_load")
                  /\ UNCHANGED <<renewal_status, ret>>
      [] s = 3 -> /\ pc' = "ext_marker"
                  /\ UNCHANGED <<stg, selIdx, lastShot, renewal_status, ret>>
      [] s = 4 -> /\ renewal_status' = "Success"
                  /\ Shot("success_all_stages")
                  /\ ret' = "True"
                  /\ pc' = "ext_ret"
                  /\ UNCHANGED <<stg, selIdx>>

\* faulty variant of Attempted: the method loop starts over when its last
\* method raised
Attempted_StartsOver(t) ==
    IF Len(t) + 1 = Len(ClickMethods) THEN <<>>
    ELSE Append(t, ClickMethods[Len(t) + 1])

\* `for method in [...]` takes the next method of the list, once
Attempted(t) == Append(t, ClickMethods[Len(t) + 1])

\* one iteration of `for method in [...]`: the next method of the list is
\* attempted on the stage's locator; the loop breaks when it does not raise
ExtClick ==
    /\ pc = "ext_click"
    /\ Len(tried) < Len(ClickMethods)
    /\ tried' = Attempted(tried)
    /\ \E raises \in BOOLEAN :
         IF ~raises
           THEN /\ clicks' = [clicks EXCEPT ![stg] = @ + 1]
                /\ AfterClick(stg)
                /\ UNCHANGED error_message
           ELSE /\ UNCHANGED <<clicks, renewal_status, stg, selIdx>>
                /\ IF Len(tried') < Len(ClickMethods)
                     THEN UNCHANGED <<pc, error_message, lastShot, ret>>
                     ELSE IF stg = 1 THEN ExtFail("Renew:Stage1ClickFailed")
                     ELSE IF stg = 4 THEN ExtFail("Renew:Stage4ClickFailed")
                     ELSE /\ pc' = "ext_js"
                          /\ UNCHANGED <<error_message, lastShot, ret>>
    /\ UNCHANGED <<remaining_hours, resVars, notes, stages, loginEnv,
                   loginVars, timeVars, ctlCtx, chosen, selProbes,
                   markerSeen>>

\* after the three methods raised. Stage 2: evaluate of a script that calls
\* el.click() and then dispatches a second click event; a raise becomes the
\* stage's failure. Stage 3: evaluate("el => el.click()"), unguarded.
ExtJs ==
    /\ pc = "ext_js"
    /\ \E raises \in BOOLEAN :
         IF raises
           THEN /\ ExtFail(IF stg = 2 THEN "Renew:Stage2ClickFailed"
                           ELSE "Renew:Error")
                /\ UNCHANGED <<clicks, tried, renewal_status, stg, selIdx>>
           ELSE /\ clicks' = [clicks EXCEPT
                               ![stg] = @ + (IF stg = 2 THEN 2 ELSE 1)]
                /\ tried' = Append(tried, "evaluate_script")
                /\ AfterClick(stg)
                /\ UNCHANGED error_message
    /\ UNCHANGED <<remaining_hours, resVars, notes, stages, loginEnv,
                   loginVars, timeVars, ctlCtx, chosen, selProbes,
                   markerSeen>>

\* Selectors 1..4 of final_selectors and of fourth_selectors name the
\* renewal button's label: on the page they resolve only when the button is
\* in the main frame. The later ones (class names, a bare text fragment)
\* can resolve to another element of the page.
NumLabelSelectors == 4

PageAnswers(s, k) ==
    IF s \in {2, 4} /\ k <= NumLabelSelectors /\ ctlCtx # "root"
      THEN {FALSE} ELSE BOOLEAN

\* faulty variant of NextSelector: the loop steps over a selector
NextSelector_Skips(k) == k + 2

\* `for sel in ..._selectors`: the selector after selector k of the list
NextSelector(k) == k + 1

\* one iteration of `for sel in ..._selectors`: loc.is_visible() on the page
ExtSelProbe ==
    /\ pc = "ext_sel"
    /\ selIdx <= NumSelectors(stg)
    /\ selProbes' = [selProbes EXCEPT ![stg] = @ + 1]
    /\ \E vis \in PageAnswers(stg, selIdx) :
         IF vis
           THEN /\ ExtPrepare(selIdx)
                /\ UNCHANGED selIdx
           ELSE /\ selIdx' = NextSelector(selIdx)
                /\ UNCHANGED <<pc, chosen, tried, error_message, lastShot,
                               ret>>
    /\ UNCHANGED <<runVars, resVars, notes, stages, loginEnv, loginVars,
                   timeVars, ctlCtx, stg, clicks, markerSeen>>

\* faulty variant of ExtSelExhausted: a missing confirmation button raised
\* like a missing button of stages 2 and 4
ExtSelExhausted_ConfirmRequired ==
    /\ pc = "ext_sel"
    /\ selIdx > NumSelectors(stg)
    /\ chosen' = 0
    /\ IF stg = 3
         THEN ExtFail("Renew:Error")
         ELSE /\ pc' = "ext_fb"
              /\ UNCHANGED <<error_message, ret, lastShot>>
    /\ UNCHANGED <<runVars, resVars, notes, stages, loginEnv, loginVars,
                   timeVars, ctlCtx, stg, selIdx, tried, clicks, selProbes,
                   markerSeen>>

\* the selector loop ended without a visible locator: stages 2 and 4 go to
\* the last-visible-button fallback, stage 3 goes on without confirmation
ExtSelExhausted ==
    /\ pc = "ext_sel"
    /\ selIdx > NumSelectors(stg)
    /\ chosen' = 0
    /\ pc' = IF stg = 3 THEN "ext_marker" ELSE "ext_fb"
    /\ UNCHANGED <<runVars, resVars, error_message, ret, notes, stages,
                   lastShot, loginEnv, loginVars, timeVars, ctlCtx, stg,
                   selIdx, tried, clicks, selProbes, markerSeen>>

\* fallback: the last visible button of the page
ExtFallback ==
    /\ pc = "ext_fb"
    /\ \E vis \in BOOLEAN :
         IF vis THEN ExtPrepare(-1)
         ELSE /\ ExtFail(IF stg = 2 THEN "Renew:Stage2NotFound"
                         ELSE "Renew:Stage4NotFound")
              /\ UNCHANGED <<chosen, tried>>
    /\ UNCHANGED <<runVars, resVars, notes, stages, loginEnv, loginVars,
                   timeVars, ctlCtx, stg, selIdx, clicks, selProbes,
                   markerSeen>>

\* faulty variant of ExtMarker: the wait's timeout swallowed, stage 4 entered
\* without the marker
ExtMarker_TimeoutIgnored ==
    /\ pc = "ext_marker"
    /\ \E outcome \in {"visible", "timeout", "error"} :
         IF outcome = "error"
           THEN /\ ExtFail("Renew:Error")
                /\ UNCHANGED <<markerSeen, stg, selIdx, chosen>>
           ELSE /\ markerSeen' = (outcome = "visible")
                /\ Shot("11_after_fourth_load")
                /\ stg' = 4 /\ selIdx' = 1 /\ chosen' = 0
                /\ pc' = "ext_sel"
                /\ UNCHANGED <<error_message, ret>>
    /\ UNCHANGED <<runVars, resVars, notes, stages, loginEnv, loginVars,
                   timeVars, ctlCtx, tried, clicks, selProbes>>

\* success_locator.wait_for(visible, 90 s)
ExtMarker ==
    /\ pc = "ext_marker"
    /\ \E outcome \in {"visible", "timeout", "error"} :
         CASE outcome = "visible" ->
                /\ markerSeen' = TRUE
                /\ Shot("11_after_fourth_load")
                /\ stg' = 4 /\ selIdx' = 1 /\ chosen' = 0
                /\ pc' = "ext_sel"
                /\ UNCHANGED <<error_message, ret>>
           [] outcome = "timeout" ->
                /\ ExtFail("Renew:SuccessMarkerTimeout")
                /\ UNCHANGED <<markerSeen, stg, selIdx, chosen>>
           [] outcome = "error" ->
                /\ ExtFail("Renew:Error")
                /\ UNCHANGED <<markerSeen, stg, selIdx, chosen>>
    /\ UNCHANGED <<runVars, resVars, notes, stages, loginEnv, loginVars,
                   timeVars, ctlCtx, tried, clicks, selProbes>>

\* faulty variant of RunAfterExtend: the failure notification sent
\* without the else
RunAfterExtend_NoElse ==
    /\ pc = "ext_ret"
    /\ notes' = IF ret = "True"
                THEN notes \o << <<"RenewSuccess", "done">>,
                                 <<"RenewFailed", error_message>> >>
                ELSE Append(notes, <<"RenewFailed", error_message>>)
    /\ pc' = "fin_close"
    /\ UNCHANGED <<runVars, resVars, error_message, ret, stages, lastShot,
                   loginEnv, loginVars, timeVars, extVars>>

\* run: if await self.extend_contract(): notify success else notify failure
RunAfterExtend ==
    /\ pc = "ext_ret"
    /\ IF StageSucceeded(ret)
         THEN Notified("RenewSuccess", "done")
         ELSE Notified("RenewFailed", error_message)
    /\ pc' = "fin_close"
    /\ UNCHANGED <<runVars, resVars, error_message, ret, stages, lastShot,
                   loginEnv, loginVars, timeVars, extVars>>

(* ======================= run: except Exception ========================= *)
\* Every stage catches Exception itself, so run's handler is reached only
\* by an exception raised while a stage's own handler runs (after it set
\* error_message): renewal_status, notify, then the finally block.
StageHandlerMessage ==
    CASE pc = "login_form" -> "LoginUnknownError"
      [] pc = "time_locate" -> "GetTimeFailed:Error"
      [] OTHER -> "Renew:Error"

RunFault ==
    /\ pc \in {"login_form", "time_locate", "ext_entry", "ext_marker"}
    /\ error_message' = StageHandlerMessage
    /\ renewal_status' = "Critical Error"
    /\ Notified("CriticalError", "exception")
    /\ pc' = "fin_close"
    /\ UNCHANGED <<remaining_hours, resVars, ret, stages, lastShot,
                   loginEnv, loginVars, timeVars, extVars>>

(* ======================= run: finally ================================== *)
\* if self.browser: await self.browser.close(). When close() raises, the
\* exception leaves run() and the rest of the finally block is skipped.
FinallyClose ==
    /\ pc = "fin_close"
    /\ IF browser = "open"
         THEN /\ closeCalled' = TRUE
              /\ \E raises \in BOOLEAN :
                   IF raises
                     THEN /\ pc' = "done"
                          /\ UNCHANGED browser
                     ELSE /\ pc' = "fin_stop"
                          /\ browser' = "closed"
         ELSE /\ pc' = "fin_stop"
              /\ UNCHANGED <<browser, closeCalled>>
    /\ UNCHANGED <<pw, page, stopCalled, runVars, error_message, ret, notes,
                   stages, lastShot, loginEnv, loginVars, timeVars, extVars>>

\* if self._pw: await self._pw.stop()
FinallyStop ==
    /\ pc = "fin_stop"
    /\ IF pw = "started"
         THEN /\ stopCalled' = TRUE
              /\ \E raises \in BOOLEAN :
                   pw' = IF raises THEN "started" ELSE "stopped"
         ELSE UNCHANGED <<pw, stopCalled>>
    /\ pc' = "done"
    /\ UNCHANGED <<browser, page, closeCalled, runVars, error_message, ret,
                   notes, stages, lastShot, loginEnv, loginVars, timeVars,
                   extVars>>

(* ======================= claims ======================================== *)
Range(f) == {f[i] : i \in DOMAIN f}
Started(stage) == stage \in Range(stages)
NoRenewalInteraction ==
    \A s \in Stages : clicks[s] = 0 /\ selProbes[s] = 0
RunEnded == pc = "done"

\* C1: when the remaining time was extracted as an integer N, extend_contract
\* is started if and only if N < 24: for N >= 24 (24 included) the run ends
\* with status 'Not Needed' and no renewal control is ever probed or
\* clicked; for every N in 0..23 the renewal procedure is started.
C1_RenewalIffBelow24 ==
    /\ Started("extend_contract") => remaining_hours \in 0..23
    /\ remaining_hours >= 24 =>
         /\ ~Started("extend_contract")
         /\ NoRenewalInteraction
         /\ RunEnded => renewal_status = "Not Needed"
    /\ (remaining_hours \in 0..23 /\ pc # "time_ret") =>
         Started("extend_contract")

C1_Witness ==
    /\ RunEnded
    /\ remaining_hours = 24
    /\ renewal_status = "Not Needed"

\* C2: when the renewal click was dispatched and the success marker never
\* became visible within the wait, the outcome reported in the run's
\* notification is ProbableSuccess: neither Success nor Failed.
C2_ProbableSuccessReported ==
    (error_message = "Renew:SuccessMarkerTimeout" /\ clicks[2] > 0
        /\ Len(notes) = 1)
      => notes[1][1] \notin {"RenewSuccess", "RenewFailed"}

\* C3: every run sends exactly one summary notification: never more than
\* one notify call, and exactly one when run has returned.
C3_ExactlyOneNotification ==
    /\ Len(notes) <= 1
    /\ RunEnded => Len(notes) = 1
    /\ pc \in {"fin_close", "fin_stop"} => Len(notes) = 1

C3_Witness ==
    /\ RunEnded
    /\ renewal_status = "Success"
    /\ Len(notes) = 1 /\ notes[1][1] = "RenewSuccess"

\* C4: when run has returned, every acquired browser resource was released:
\* a launched browser had close() called on it and a started driver had
\* stop() called on it, also when close() itself failed.
C4_ResourcesReleased ==
    RunEnded =>
      /\ browser # "none" => closeCalled
      /\ pw # "none" => stopCalled

\* C5: when the step-up-verification marker is visible after the login form
\* was submitted, the run fails with the step-up reason and makes no
\* interaction attempt (locator resolution or click) against the
\* panel-entry control, the remaining-time indicator or a renewal control.
C5_StepUpStopsTheRun ==
    (otpVisible /\ pc # "login_otp") =>
      /\ error_message = "StepUpVerificationRequired"
      /\ \A c \in Contexts : probes[c] = 0
      /\ entryClicks = <<>>
      /\ timeProbes = 0
      /\ NoRenewalInteraction
      /\ stages = <<"setup_browser", "login">>
      /\ renewal_status = "Unknown"
      /\ RunEnded => notes = << <<"LoginFailed", "StepUpVerificationRequired">> >>

C5_Witness ==
    /\ RunEnded
    /\ otpVisible
    /\ visible # {}
    /\ error_message = "StepUpVerificationRequired"

\* The scan of the listing page is over: every context was tried or one
\* click went through.
EntryScanOver ==
    \/ pc = "login_verify"
    \/ pc = "login_ret" /\ error_message \in {"EntryClickFailed",
                                               "PanelValidationFailed"}
    \/ pc = "login_ret" /\ ret = "True"

\* C6: with remaining hours below 24, the renewal button only inside the
\* embedded frame, no confirmation dialog, no call that raises and a
\* success marker that appears after the click, the run ends with outcome
\* Success, one click dispatched on the renewal control and none on a
\* confirmation control.
C6_ScenarioBSucceeds ==
    ( /\ RunEnded
      /\ Started("extend_contract")
      /\ remaining_hours \in 0..23
      /\ ctlCtx = "frame"
      /\ renewal_status # "Critical Error"
      /\ error_message \notin {"Renew:Error", "Renew:SuccessMarkerTimeout",
                               "Renew:EntryNotFound",
                               "Renew:Stage1ClickFailed",
                               "Renew:Stage2ClickFailed",
                               "Renew:Stage4ClickFailed"} )
      => /\ renewal_status = "Success"
         /\ clicks[2] = 1
         /\ clicks[3] = 0

\* C7 (helpers): an occurrence of marker, whitespace*, digits, whitespace*,
\* unit in t: marker at i, digits at j..k-1, unit at l.
Occurrence(t, i, j, k, l) ==
    /\ 1 <= i /\ i < j /\ j < k /\ k <= l /\ l <= Len(t)
    /\ t[i] = "M" /\ t[l] = "U"
    /\ \A p \in (i + 1)..(j - 1) : t[p] = "s"
    /\ \A p \in j..(k - 1) : t[p] \in {"0", "2", "3", "4"}
    /\ \A p \in k..(l - 1) : t[p] = "s"

Positions(t) == 1..(Len(t) + 1)

OccursAt(t, i) == \E j, k, l \in Positions(t) : Occurrence(t, i, j, k, l)

HasOccurrence(t) == \E i \in Positions(t) : OccursAt(t, i)

RECURSIVE Pow10(_)
Pow10(n) == IF n = 0 THEN 1 ELSE 10 * Pow10(n - 1)

\* the number written by the digits t[p..k-1]
RECURSIVE DecimalSum(_, _, _)
DecimalSum(t, p, k) ==
    IF p >= k THEN 0
    ELSE DigitValue(t[p]) * Pow10(k - 1 - p) + DecimalSum(t, p + 1, k)

\* C7: time extraction has three distinguishable outcomes. A located text
\* with an occurrence of the pattern gives the non-negative base-10 value of
\* the digits (of the leftmost occurrence); a located text without one
\* gives PatternMismatch; no element in any context gives the not-found
\* failure; PatternMismatch is reported for no other case.
C7_ThreeOutcomes ==
    pc = "time_ret" =>
      /\ (full_text # <<>> /\ HasOccurrence(full_text)) =>
           /\ ret = "True"
           /\ remaining_hours >= 0
           /\ \E i, j, k, l \in Positions(full_text) :
                /\ Occurrence(full_text, i, j, k, l)
                /\ \A h \in 1..(i - 1) : ~OccursAt(full_text, h)
                /\ remaining_hours = DecimalSum(full_text, j, k)
      /\ (full_text # <<>> /\ ~HasOccurrence(full_text)) =>
           /\ ret = "False"
           /\ error_message = "PatternMismatch"
      /\ timeCtx = "none" =>
           /\ ret = "False"
           /\ error_message = "GetTimeFailed:Timeout"
      /\ error_message = "PatternMismatch" =>
           /\ timeCtx = "root"
           /\ full_text # <<>>

C7_Witness ==
    /\ pc = "time_ret"
    /\ full_text = <<"M", "x", "2", "U">>
    /\ error_message = "PatternMismatch"
    /\ ret = "False"

\* C8: when the target control resolves to a visible element at one
\* (context, locator) combination only, the interaction succeeds with the
\* click dispatched on that combination and on no other: for the
\* panel-entry click (contexts of the listing page) and for the renewal
\* click (the button visible only inside the embedded frame).
C8_ClickOnTheOnlyCombination ==
    /\ \A c \in Contexts :
         (EntryScanOver /\ visible = {c} /\ ~dispatchRaised)
            => entryClicks = <<c>>
    /\ ( /\ stg = 2
         /\ ctlCtx = "frame"
         /\ selIdx > NumFinalSelectors
         /\ pc \in {"ext_fb", "ext_click", "ext_ret"} )
         => /\ error_message # "Renew:Stage2NotFound"
            /\ chosen # -1

\* C9: when the panel-entry control resolves in no context, the scan ends
\* with the not-found failure after resolving the locator once in the main
\* frame and once in each embedded frame, and no click is dispatched.
C9_NotFoundProbesEachContextOnce ==
    ( /\ pc = "login_ret"
      /\ visible = {}
      /\ ~otpVisible
      /\ error_message # "LoginUnknownError" )
      => /\ error_message = "EntryClickFailed"
         /\ ret = "False"
         /\ \A c \in 0..nframes : probes[c] = 1
         /\ \A c \in Contexts \ (0..nframes) : probes[c] = 0
         /\ entryClicks = <<>>

C9_Witness ==
    /\ pc = "login_ret"
    /\ error_message = "EntryClickFailed"
    /\ nframes = 2
    /\ present = {1}
    /\ visible = {}
    /\ probes = [c \in Contexts |-> IF c <= 2 THEN 1 ELSE 0]

\* C10: a failure because nothing resolved to a visible element and a
\* failure because an element resolved but every click on it raised are
\* never reported with the same message. "EntryClickFailed" is what the
\* panel-entry scan reports when nothing resolved (C9); the renewal stages
\* have one message for each class.
C10_FaultClassesDistinct ==
    /\ ( /\ pc = "login_ret"
         /\ ret = "False"
         /\ dispatchRaised
         /\ entryClicks = <<>> )
         => error_message # "EntryClickFailed"
    /\ error_message \in {"Renew:EntryNotFound", "Renew:Stage2NotFound",
                          "Renew:Stage4NotFound"}
         => chosen = 0
    /\ error_message \in {"Renew:Stage1ClickFailed",
                          "Renew:Stage2ClickFailed",
                          "Renew:Stage4ClickFailed"}
         => chosen # 0 /\ Len(tried) >= Len(ClickMethods)

\* The escalation order the specification names: a standard click that
\* respects hit-testing, a forced click, a scripted click.
EscalationOrder == <<"click", "click_force", "evaluate_click">>

\* C11: on a resolved element the click methods are attempted in the fixed
\* order standard click, forced click, scripted click: what was attempted so
\* far is always a prefix of that order (a later method only after the
\* earlier ones, nothing beyond the three).
C11_EscalationOrder ==
    stg \in Stages =>
      /\ Len(tried) <= Len(EscalationOrder)
      /\ \A i \in 1..Len(tried) : tried[i] = EscalationOrder[i]

\* the order of the stages in run
StageOrder ==
    <<"setup_browser", "login", "get_remaining_time", "extend_contract">>

\* C12: the run is a single linear pass. A step that starts a stage starts
\* the next stage of the order setup_browser, login, get_remaining_time,
\* extend_contract (so each is started at most once), and a later stage is
\* started only at the return of the stage before it with success; once a
\* stage has returned failure no stage is started, and none is retried.
C12_SingleLinearPass ==
    [][ /\ stages' # stages =>
            /\ Len(stages) < Len(StageOrder)
            /\ stages' = Append(stages, StageOrder[Len(stages) + 1])
            /\ stages # <<>> =>
                  /\ pc \in {"setup_ret", "login_ret", "time_ret"}
                  /\ ret = "True"
        /\ ret = "False" => stages' = stages ]_vars

\* a login that failed ended the run with nothing started after it
C12_Witness ==
    /\ RunEnded
    /\ stages = <<"setup_browser", "login">>
    /\ ret = "False"

\* the messages get_remaining_time leaves when it fails
TimeFailureMessages ==
    {"PatternMismatch", "GetTimeFailed:Error", "GetTimeFailed:Timeout"}

\* C13: the renewal never acts on an unknown remaining time. After time
\* extraction failed the renewal procedure is never started, no renewal
\* control is probed or clicked, and the run ends failed with the one
\* failure notification; and in every state where extend_contract has been
\* started remaining_hours is a known integer below 24.
C13_NoRenewalOnUnknownTime ==
    /\ error_message \in TimeFailureMessages =>
          /\ ~Started("extend_contract")
          /\ NoRenewalInteraction
          /\ renewal_status \in {"Unknown", "Critical Error"}
          /\ RunEnded =>
                /\ Len(notes) = 1
                /\ notes[1][1] \in {"CheckFailed", "CriticalError"}
    /\ Started("extend_contract") =>
          /\ remaining_hours # NoHours
          /\ remaining_hours \in Nat
          /\ remaining_hours < Threshold

\* a run ended after the located text did not match the pattern
C13_Witness ==
    /\ RunEnded
    /\ error_message = "PatternMismatch"
    /\ notes = << <<"CheckFailed", "PatternMismatch">> >>

\* C14: panel-reaching succeeds only on the landmark. login returns success
\* only after an entry click was dispatched and the landmark was then seen
\* within its wait; when the click was dispatched and the landmark did not
\* appear the stage has failed with the validation message and neither
\* time extraction nor renewal is started. The landmark is waited for only
\* after a dispatched click.
C14_LandmarkDecidesPanelReached ==
    /\ (pc = "login_ret" /\ ret = "True") =>
          /\ entryClicks # <<>>
          /\ landmark = "visible"
    /\ Started("get_remaining_time") => landmark = "visible"
    /\ landmark = "absent" =>
          /\ entryClicks # <<>>
          /\ ret = "False"
          /\ error_message = "PanelValidationFailed"
          /\ ~Started("get_remaining_time")
          /\ ~Started("extend_contract")
          /\ NoRenewalInteraction
    /\ (pc \in {"login_form", "login_otp", "login_main", "login_frames",
                 "login_verify"}) => landmark = "unknown"

\* the click went out, the landmark did not appear, and the run is over
C14_Witness ==
    /\ RunEnded
    /\ entryClicks # <<>>
    /\ landmark = "absent"
    /\ stages = <<"setup_browser", "login">>

\* C15: a missing confirmation control is not an error. When none of the
\* confirmation selectors was visible the procedure goes on to the wait for
\* the success marker with no click dispatched and no failure recorded; a
\* confirmation click is dispatched only on a confirmation control that was
\* found visible; and the wait is entered with a confirmation click exactly
\* when one was found.
C15_ConfirmationOptional ==
    [][ /\ (pc = "ext_sel" /\ stg = 3 /\ selIdx > NumConfirmSelectors) =>
            /\ pc' = "ext_marker"
            /\ clicks' = clicks
            /\ tried' = tried
            /\ error_message' = error_message
            /\ ret' = ret
        /\ clicks'[3] # clicks[3] =>
            /\ stg = 3
            /\ pc \in {"ext_click", "ext_js"}
            /\ chosen \in 1..NumConfirmSelectors
        /\ (pc # "ext_marker" /\ pc' = "ext_marker") =>
            (clicks'[3] > 0 <=> chosen' \in 1..NumConfirmSelectors) ]_vars

\* the renewal succeeded although no confirmation control was visible
C15_Witness ==
    /\ renewal_status = "Success"
    /\ selProbes[3] = NumConfirmSelectors
    /\ clicks[3] = 0
    /\ markerSeen

\* C16: every run terminates. Whatever the page does (nothing appears, no
\* navigation completes, every click raises), the task, which always takes
\* its next step because each of its waits is bounded, reaches the end of
\* run, and it does so through the finally block: a launched browser had
\* close() called on it.
C16_RunTerminates ==
    <>(RunEnded /\ (browser # "none" => closeCalled))

\* a run ended after every click method raised on the entry link
C16_Witness ==
    /\ RunEnded
    /\ error_message = "Renew:Stage1ClickFailed"
    /\ Len(tried) = Len(ClickMethods)
    /\ closeCalled

\* the screenshots login takes on its failure paths
LoginFailureShots ==
    {"03_otp_page", "04_click_failure", "06_panel_validation_failed",
     "error_login_critical"}

\* C17: a screenshot is requested on every stage failure: when login,
\* get_remaining_time or extend_contract returns failure, the last
\* screenshot requested is one requested on that failure path, between the
\* detection of the failure and the return.
C17_ScreenshotOnEveryFailure ==
    /\ (pc = "login_ret" /\ ret = "False") => lastShot \in LoginFailureShots
    /\ (pc = "time_ret" /\ ret = "False") => lastShot = "error_get_time"
    /\ (pc = "ext_ret" /\ ret = "False") => lastShot = "error_extend_final"

\* C18: in the stages that search a ranked selector list (2, 3 and 4) the
\* selectors are probed in list order: while the search runs, the probes
\* made are those of the selectors before the next one, one each; a chosen
\* selector k was reached after exactly the k probes of selectors 1..k, so
\* it is the first visible one and none after it was probed; and the
\* last-visible-button fallback (stages 2 and 4) is reached or used only
\* after all the selectors of the list were probed.
C18_SelectorsInListOrder ==
    stg \in 2..4 =>
      /\ pc = "ext_sel" =>
            /\ selIdx \in 1..(NumSelectors(stg) + 1)
            /\ selProbes[stg] = selIdx - 1
      /\ (pc \in {"ext_click", "ext_js", "ext_marker"} /\ chosen >= 1) =>
            /\ chosen = selIdx
            /\ chosen <= NumSelectors(stg)
            /\ selProbes[stg] = chosen
      /\ (pc = "ext_fb" \/ (pc \in {"ext_click", "ext_js"} /\ chosen = -1)) =>
            /\ stg \in {2, 4}
            /\ selIdx = NumSelectors(stg) + 1
            /\ selProbes[stg] = NumSelectors(stg)
      /\ \A s \in 2..4 : selProbes[s] <= NumSelectors(s)

\* stage 2 chose its fifth selector after five probes and stage 4 is on the
\* fallback button after probing its whole list
C18_Witness ==
    /\ pc = "ext_click"
    /\ stg = 4
    /\ chosen = -1
    /\ selProbes[2] = 5
    /\ selProbes[4] = NumFourthSelectors

\* the messages each stage leaves when it returns failure
LoginFailureMessages ==
    {"StepUpVerificationRequired", "EntryClickFailed",
     "PanelValidationFailed", "LoginUnknownError"}
RenewFailureMessages ==
    {"Renew:Error", "Renew:EntryNotFound", "Renew:Stage1ClickFailed",
     "Renew:Stage2NotFound", "Renew:Stage2ClickFailed",
     "Renew:SuccessMarkerTimeout", "Renew:Stage4NotFound",
     "Renew:Stage4ClickFailed"}
FailureTitles == {"StartFailed", "LoginFailed", "CheckFailed", "RenewFailed"}

\* C19: every failed outcome carries a reason. When a stage has returned
\* failure error_message is set, and it is a message of that very stage;
\* a failure notification of run carries that message, never an unset one.
C19_FailureCarriesReason ==
    /\ ret = "False" => error_message # None
    /\ (pc = "setup_ret" /\ ret = "False") =>
          error_message = "BrowserLaunchFailed"
    /\ (pc = "login_ret" /\ ret = "False") =>
          error_message \in LoginFailureMessages
    /\ (pc = "time_ret" /\ ret = "False") =>
          error_message \in TimeFailureMessages
    /\ (pc = "ext_ret" /\ ret = "False") =>
          error_message \in RenewFailureMessages
    /\ \A i \in DOMAIN notes :
          notes[i][1] \in FailureTitles =>
            /\ notes[i][2] # None
            /\ notes[i][2] = error_message

\* the run ended with the failure notification of a renewal whose success
\* marker did not appear
C19_Witness ==
    /\ RunEnded
    /\ ret = "False"
    /\ notes = << <<"RenewFailed", "Renew:SuccessMarkerTimeout">> >>

\* positions of the task after extend_contract returned or was left
AfterRenewal == {"ext_ret", "fin_close", "fin_stop", "done"}

\* C21: the steps of the renewal procedure are ordered and gated. A
\* second-stage click was dispatched only after an entry click went out,
\* the wait for the success marker is reached only after a second-stage
\* click went out, a fourth-stage click was dispatched only after the
\* marker was observed, the stage number never goes back, and once the
\* procedure has failed or was left no click is dispatched any more.
C21_RenewalStepsGated ==
    [][ /\ clicks'[2] > 0 => clicks'[1] > 0
        /\ clicks'[3] > 0 => clicks'[2] > 0
        /\ (pc' = "ext_marker" \/ markerSeen') => clicks'[2] > 0
        /\ (stg' = 4 \/ clicks'[4] > 0) => markerSeen'
        /\ stg' >= stg
        /\ \A s \in Stages : clicks'[s] # clicks[s] => s = stg
        /\ pc \in AfterRenewal => clicks' = clicks /\ pc' \in AfterRenewal
      ]_vars

\* the procedure failed at the marker wait after two clicks, and no
\* fourth-stage click went out
C21_Witness ==
    /\ RunEnded
    /\ error_message = "Renew:SuccessMarkerTimeout"
    /\ clicks[1] > 0 /\ clicks[2] > 0
    /\ clicks[4] = 0
    /\ ~markerSeen

\* the values renewal_status takes
StatusValues == {"Unknown", "Not Needed", "Success", "Critical Error"}

\* C22: renewal_status is always one of 'Unknown', 'Not Needed', 'Success',
\* 'Critical Error'. It is 'Success' only when the success marker was
\* observed and the clicks of stages 1, 2 and 4 were dispatched, only after
\* extend_contract returned success, and the only notification such a run
\* sends is the success one; it is 'Not Needed' only with remaining hours
\* known and >= 24; and after a stage returned failure it is 'Unknown'.
C22_StatusValues ==
    /\ renewal_status \in StatusValues
    /\ renewal_status = "Success" =>
          /\ markerSeen
          /\ clicks[1] > 0 /\ clicks[2] > 0 /\ clicks[4] > 0
          /\ ret = "True"
          /\ pc \in AfterRenewal
          /\ \A i \in DOMAIN notes : notes[i][1] = "RenewSuccess"
          /\ RunEnded => Len(notes) = 1
    /\ renewal_status = "Not Needed" =>
          /\ remaining_hours # NoHours
          /\ remaining_hours >= Threshold
          /\ ~Started("extend_contract")
    /\ ret = "False" => renewal_status = "Unknown"

\* a run that ended in 'Success' with the confirmation click dispatched too
C22_Witness ==
    /\ RunEnded
    /\ renewal_status = "Success"
    /\ clicks[3] > 0
    /\ markerSeen
    /\ notes = << <<"RenewSuccess", "done">> >>

Next ==
    \/ SetupBrowser
    \/ RunAfterSetup
    \/ LoginForm
    \/ LoginOtpCheck
    \/ LoginMainProbe
    \/ LoginFrameProbe
    \/ LoginScanDone
    \/ LoginVerify
    \/ RunAfterLogin
    \/ GetTimeLocate
    \/ GetTimeMatch
    \/ RunAfterTime
    \/ ExtEntry
    \/ ExtClick
    \/ ExtJs
    \/ ExtSelProbe
    \/ ExtSelExhausted
    \/ ExtFallback
    \/ ExtMarker
    \/ RunAfterExtend
    \/ RunFault
    \/ FinallyClose
    \/ FinallyStop

Spec == Init /\ [][Next]_vars

\* run is one sequential task and each await in it is bounded (timeouts on
\* every wait, fixed sleeps, finite lists): the task always takes its next
\* step.
FairSpec == Spec /\ WF_vars(Next)
====
